---- MODULE Spec2Model ----
(***************************************************************************)
(* Model of the SC16IS752 dual-UART / GPIO expander driver (src/lib.rs).   *)
(* Every driver operation is a sequence of bus transactions issued through *)
(* read_register / write_register; one step of the model is one bus        *)
(* transaction together with the local computation that follows it.  The   *)
(* chip and the bus transport are the environment: a transaction may fail, *)
(* and a register read returns what the chip holds.                        *)
(***************************************************************************)
EXTENDS Integers, Sequences, FiniteSets, TLC

VARIABLES
    raw,         \* device_address handed to new
    address,     \* SC16IS752.address
    fifo,        \* SC16IS752.fifo: cached RXLVL per channel
    peek_flags,  \* SC16IS752.peek_flags
    peek_buf,    \* SC16IS752.peek_buf
    rxfifo,      \* chip: RX FIFO contents per channel
    gpio,        \* chip: the IODir and IOState registers
    pins,        \* history: initial IODir/IOState and the last value requested
                 \* per pin by a completed gpio_set_pin_mode / _state
    pc,          \* position inside the running operation, "idle" between calls
    op,          \* the running (or last) public operation and its arguments
    loc,         \* local variables of the running operation
    trace,       \* bus transactions issued by the running (or last) operation
    ret,         \* result of the last completed operation
    rx0,         \* chip RX FIFO contents when the running operation was called
    arrived      \* a byte arrived in an RX FIFO since the operation was called

vars == <<raw, address, fifo, peek_flags, peek_buf, rxfifo, gpio, pins, pc,
          op, loc, trace, ret, rx0, arrived>>

driver == <<raw, address, peek_flags, peek_buf>>

----------------------------------------------------------------------------
(* Bounds and sample sets *)

MaxFifo == 2
MaxPayload == 2
MaxPolls == 2

Channels == {"A", "B"}
BusErrors == {"NACK", "ArbitrationLoss"}
BusOutcomes == {"none"} \cup BusErrors
RawAddresses == {154}
RxBytes == {65, 66}
TxBytes == {17, 34}
RegValues == {0, 70, 157}
LsrValues == {0, 1, 32, 96}
Quantities == {0, 1, 255}
BaudRates == {0, 300, 9600, 115200}
WordLengths == {5, 6, 7, 8, 9}
StopBits == {1, 2}
PinSamples == {0, 3}
GpioInitial == {0, 165}
ScratchValues == 0..255
IirValues == 0..255
EfcrValues == 0..255
RegOffsets == 0..15
TriggerLengths == {0, 5, 16, 255}
Parities == {"NoParity", "Odd", "Even", "ForcedParity1", "ForcedParity0"}

CRYSTAL_FREQ == 1843200

----------------------------------------------------------------------------
(* u8 arithmetic *)

RECURSIVE BitAndN(_, _, _)
BitAndN(a, b, n) ==
    IF n = 0 THEN 0
    ELSE (IF a % 2 = 1 /\ b % 2 = 1 THEN 1 ELSE 0)
         + 2 * BitAndN(a \div 2, b \div 2, n - 1)

RECURSIVE BitOrN(_, _, _)
BitOrN(a, b, n) ==
    IF n = 0 THEN 0
    ELSE (IF a % 2 = 1 \/ b % 2 = 1 THEN 1 ELSE 0)
         + 2 * BitOrN(a \div 2, b \div 2, n - 1)

BitAnd(a, b) == BitAndN(a, b, 8)
BitOr(a, b) == BitOrN(a, b, 8)
Shl8(a, k) == (a * (2 ^ k)) % 256

ChanIdx(c) == IF c = "A" THEN 0 ELSE 1

----------------------------------------------------------------------------
(* Results *)

Ok(v) == [kind |-> "ok", err |-> "none", val |-> v]
Err(e) == [kind |-> "err", err |-> e, val |-> <<>>]
Panic(m) == [kind |-> "panic", err |-> m, val |-> <<>>]
NoResult == [kind |-> "none", err |-> "none", val |-> <<>>]
Unit == <<>>

NoOp == [name |-> "none", channel |-> "A"]

Loc0 == [tmp |-> 0, divisor |-> 0, i |-> 0, n |-> 0, buf |-> <<>>]

----------------------------------------------------------------------------
(* Register access layer *)

ResolveAddress_ExclusiveEnd(device_address) ==
    IF device_address \in 72..86 THEN device_address
    ELSE device_address \div 2

ResolveAddress(device_address) ==
    IF device_address \in 72..87 THEN device_address
    ELSE device_address \div 2

RegAddr_ChannelBit0(channel, reg_address) ==
    BitOr(Shl8(reg_address, 3), ChanIdx(channel))

RegAddr(channel, reg_address) ==
    BitOr(Shl8(reg_address, 3), Shl8(ChanIdx(channel), 1))

ReadTxn(channel, reg_address, v, e) ==
    [kind |-> "write_read", addr |-> address,
     out |-> <<RegAddr(channel, reg_address)>>, nread |-> 1,
     val |-> v, err |-> e]

WriteTxn(channel, reg_address, payload, e) ==
    [kind |-> "write", addr |-> address,
     out |-> <<RegAddr(channel, reg_address), payload>>, nread |-> 0,
     val |-> 0, err |-> e]

\* what the chip answers to a successful read of a register
ChipReadValues(channel, reg_address) ==
    CASE reg_address = 9 -> {Len(rxfifo[channel])}
      [] reg_address = 0 ->
            IF rxfifo[channel] # <<>> THEN {Head(rxfifo[channel])} ELSE {0}
      [] reg_address = 5 -> LsrValues
      [] reg_address = 7 -> ScratchValues
      [] reg_address = 10 -> {gpio.iodir}
      [] reg_address = 11 -> {gpio.iostate}
      [] OTHER -> RegValues

ReadResults(channel, reg_address, e) ==
    IF e = "none" THEN ChipReadValues(channel, reg_address) ELSE {0}

read_register(channel, reg_address, v, e) ==
    /\ trace' = Append(trace, ReadTxn(channel, reg_address, v, e))
    /\ rxfifo' = IF e = "none" /\ reg_address = 0 /\ rxfifo[channel] # <<>>
                 THEN [rxfifo EXCEPT ![channel] = Tail(@)]
                 ELSE rxfifo
    /\ UNCHANGED gpio

write_register(channel, reg_address, payload, e) ==
    /\ trace' = Append(trace, WriteTxn(channel, reg_address, payload, e))
    /\ gpio' = IF e = "none" /\ reg_address = 10
               THEN [gpio EXCEPT !.iodir = payload]
               ELSE IF e = "none" /\ reg_address = 11
               THEN [gpio EXCEPT !.iostate = payload]
               ELSE gpio
    /\ UNCHANGED rxfifo

----------------------------------------------------------------------------
(* Construction *)

\* no pin has been set yet; the chip holds iodir and iostate
NoPins(iodir, iostate) ==
    [iodir0 |-> iodir, iostate0 |-> iostate,
     dir |-> [p \in 0..7 |-> -1], state |-> [p \in 0..7 |-> -1]]

InitChip(r, iodir, iostate) ==
    /\ raw = r
    /\ gpio = [iodir |-> iodir, iostate |-> iostate]
    /\ pins = NoPins(iodir, iostate)
    /\ address = ResolveAddress(r)
    /\ fifo = [c \in Channels |-> 0]
    /\ peek_flags = [c \in Channels |-> FALSE]
    /\ peek_buf = [c \in Channels |-> <<>>]
    /\ rxfifo = [c \in Channels |-> <<>>]
    /\ pc = "idle"
    /\ op = NoOp
    /\ loc = Loc0
    /\ trace = <<>>
    /\ ret = NoResult
    /\ rx0 = [c \in Channels |-> <<>>]
    /\ arrived = FALSE

InitWith(r) == InitChip(r, 0, 0)

Init == \E r \in RawAddresses : InitWith(r)

\* entry of a public operation
Call(o, label) ==
    /\ pc = "idle"
    /\ op' = o
    /\ pc' = label
    /\ loc' = Loc0
    /\ trace' = <<>>
    /\ ret' = NoResult
    /\ rx0' = rxfifo
    /\ arrived' = FALSE
    /\ UNCHANGED <<driver, pins, fifo, rxfifo, gpio>>

\* the operation returns r to its caller
Return(r) ==
    /\ pc' = "done"
    /\ ret' = r

\* the operation panics: the call never returns
Abort(m) ==
    /\ pc' = "panicked"
    /\ ret' = Panic(m)

\* the caller takes the result; the driver is ready for the next call
Resume ==
    /\ pc = "done"
    /\ pc' = "idle"
    /\ op' = NoOp
    /\ loc' = Loc0
    /\ trace' = <<>>
    /\ ret' = NoResult
    /\ rx0' = [c \in Channels |-> <<>>]
    /\ arrived' = FALSE
    /\ UNCHANGED <<driver, pins, fifo, rxfifo, gpio>>

RxTotal == Len(rxfifo["A"]) + Len(rxfifo["B"])

\* chip: a byte arrives on a channel's receive line, between calls or (at
\* most once) while an operation is running
RxArrive(c, b) ==
    /\ RxTotal < MaxFifo
    /\ pc = "idle" \/ (pc \notin {"done", "panicked"} /\ ~arrived)
    /\ rxfifo' = [rxfifo EXCEPT ![c] = Append(@, b)]
    /\ arrived' = (pc # "idle")
    /\ UNCHANGED <<driver, pins, gpio, fifo, pc, op, loc, trace, ret, rx0>>

----------------------------------------------------------------------------
(* Data path: receive *)

CallFifoAvailableData(c) ==
    Call([name |-> "fifo_available_data", channel |-> c], "fad_read")

FifoAvailableData ==
    /\ pc = "fad_read"
    /\ \E e \in BusOutcomes : \E v \in ReadResults(op.channel, 9, e) :
        /\ read_register(op.channel, 9, v, e)
        /\ IF e = "none"
           THEN fifo' = [fifo EXCEPT ![op.channel] = v] /\ Return(Ok(<<v>>))
           ELSE UNCHANGED fifo /\ Return(Err(e))
    /\ UNCHANGED <<driver, pins, op, loc, rx0, arrived>>

CallRead(c, q) ==
    Call([name |-> "read", channel |-> c, quantity |-> q], "read_avail1")

ReadAvail1 ==
    /\ pc = "read_avail1"
    /\ \E e \in BusOutcomes : \E v \in ReadResults(op.channel, 9, e) :
        /\ read_register(op.channel, 9, v, e)
        /\ IF e = "none"
           THEN /\ fifo' = [fifo EXCEPT ![op.channel] = v]
                /\ pc' = IF op.quantity > v THEN "read_avail2" ELSE "rb_avail"
                /\ UNCHANGED <<ret, loc>>
           ELSE UNCHANGED <<fifo, loc>> /\ Return(Err(e))
    /\ UNCHANGED <<driver, pins, op, rx0, arrived>>

ReadAvail2 ==
    /\ pc = "read_avail2"
    /\ \E e \in BusOutcomes : \E v \in ReadResults(op.channel, 9, e) :
        /\ read_register(op.channel, 9, v, e)
        /\ IF e = "none"
           THEN /\ fifo' = [fifo EXCEPT ![op.channel] = v]
                /\ loc' = [loc EXCEPT !.n = v]
                /\ pc' = "rb_avail"
                /\ UNCHANGED ret
           ELSE UNCHANGED <<fifo, loc>> /\ Return(Err(e))
    /\ UNCHANGED <<driver, pins, op, rx0, arrived>>

CallReadAll(c) ==
    Call([name |-> "read_all", channel |-> c], "read_all_avail")

ReadAllAvail ==
    /\ pc = "read_all_avail"
    /\ \E e \in BusOutcomes : \E v \in ReadResults(op.channel, 9, e) :
        /\ read_register(op.channel, 9, v, e)
        /\ IF e = "none"
           THEN /\ fifo' = [fifo EXCEPT ![op.channel] = v]
                /\ loc' = [loc EXCEPT !.n = v]
                /\ pc' = "rb_avail"
                /\ UNCHANGED ret
           ELSE UNCHANGED <<fifo, loc>> /\ Return(Err(e))
    /\ UNCHANGED <<driver, pins, op, rx0, arrived>>

ReadByteHasData_OffByOne(available) == available > 1

\* read_byte: is there data to fetch
ReadByteHasData(available) == available # 0

\* end of one iteration of `for _ in 0..=n` in read / read_all
LoopNext(newbuf) ==
    IF loc.i = loc.n
    THEN /\ Return(Ok(newbuf))
         /\ loc' = [loc EXCEPT !.buf = newbuf]
    ELSE /\ loc' = [loc EXCEPT !.buf = newbuf, !.i = loc.i + 1]
         /\ pc' = "rb_avail"
         /\ UNCHANGED ret

\* read_byte as called from the loops of read and read_all: the count query
ReadByteAvail ==
    /\ pc = "rb_avail"
    /\ \E e \in BusOutcomes : \E v \in ReadResults(op.channel, 9, e) :
        /\ read_register(op.channel, 9, v, e)
        /\ IF e = "none"
           THEN /\ fifo' = [fifo EXCEPT ![op.channel] = v]
                /\ IF ReadByteHasData(v)
                   THEN pc' = "rb_data" /\ UNCHANGED <<ret, loc>>
                   ELSE LoopNext(loc.buf)
           ELSE /\ UNCHANGED fifo
                /\ LoopNext(loc.buf)
    /\ UNCHANGED <<driver, pins, op, rx0, arrived>>

\* read_byte as called from the loops of read and read_all: the data fetch
ReadByteData ==
    /\ pc = "rb_data"
    /\ \E e \in BusOutcomes : \E v \in ReadResults(op.channel, 0, e) :
        /\ read_register(op.channel, 0, v, e)
        /\ IF e = "none"
           THEN LoopNext(Append(loc.buf, v))
           ELSE LoopNext(loc.buf)
    /\ UNCHANGED <<driver, pins, fifo, op, rx0, arrived>>

NextRx ==
    \/ Resume
    \/ \E c \in Channels, b \in RxBytes : RxArrive(c, b)
    \/ \E c \in Channels : CallFifoAvailableData(c)
    \/ FifoAvailableData
    \/ \E c \in Channels, q \in Quantities : CallRead(c, q)
    \/ ReadAvail1
    \/ ReadAvail2
    \/ \E c \in Channels : CallReadAll(c)
    \/ ReadAllAvail
    \/ ReadByteAvail
    \/ ReadByteData

SpecRx == Init /\ [][NextRx]_vars

----------------------------------------------------------------------------
(* Data path: transmit *)

RECURSIVE SeqsUpTo(_, _)
SeqsUpTo(S, n) ==
    IF n = 0 THEN {<<>>}
    ELSE LET shorter == SeqsUpTo(S, n - 1)
         IN shorter \cup {Append(q, x) : q \in shorter, x \in S}

Payloads == SeqsUpTo(TxBytes, MaxPayload)

WriteByteReady_AnyBit(lsr) == lsr # 0

\* write_byte: the loop condition `(lsr & 0x20) == 0` no longer holds
WriteByteReady(lsr) == BitAnd(lsr, 32) # 0

CallWrite(c, payload) ==
    /\ Call([name |-> "write", channel |-> c, payload |-> payload], "wb_poll")
    /\ payload # <<>>

\* write of an empty payload: the loop body never runs
CallWriteEmpty(c) ==
    /\ pc = "idle"
    /\ op' = [name |-> "write", channel |-> c, payload |-> <<>>]
    /\ loc' = Loc0
    /\ trace' = <<>>
    /\ rx0' = rxfifo
    /\ arrived' = FALSE
    /\ Return(Ok(Unit))
    /\ UNCHANGED <<driver, pins, fifo, rxfifo, gpio>>

\* write_byte: one poll of the line status register; loc.i bytes are already
\* written, loc.n polls of this call found the holding register busy
WriteBytePoll ==
    /\ pc = "wb_poll"
    /\ \E e \in BusOutcomes : \E v \in ReadResults(op.channel, 5, e) :
        /\ read_register(op.channel, 5, v, e)
        /\ IF e # "none"
           THEN Return(Err(e)) /\ UNCHANGED loc
           ELSE IF WriteByteReady(v)
           THEN pc' = "wb_data" /\ loc' = [loc EXCEPT !.tmp = v]
                /\ UNCHANGED ret
           ELSE /\ loc.n < MaxPolls
                /\ loc' = [loc EXCEPT !.tmp = v, !.n = loc.n + 1]
                /\ UNCHANGED <<pc, ret>>
    /\ UNCHANGED <<driver, pins, fifo, op, rx0, arrived>>

\* write_byte: the data register write, then the next byte of the payload
WriteByteData ==
    /\ pc = "wb_data"
    /\ \E e \in BusOutcomes :
        /\ write_register(op.channel, 0, op.payload[loc.i + 1], e)
        /\ IF e # "none"
           THEN Return(Err(e)) /\ UNCHANGED loc
           ELSE IF loc.i + 1 = Len(op.payload)
           THEN Return(Ok(Unit)) /\ loc' = [loc EXCEPT !.i = loc.i + 1]
           ELSE /\ loc' = [loc EXCEPT !.i = loc.i + 1, !.tmp = 0]
                /\ pc' = "wb_poll"
                /\ UNCHANGED ret
    /\ UNCHANGED <<driver, pins, fifo, op, rx0, arrived>>

NextTx ==
    \/ Resume
    \/ \E c \in Channels, p \in Payloads : CallWrite(c, p)
    \/ \E c \in Channels : CallWriteEmpty(c)
    \/ WriteBytePoll
    \/ WriteByteData

SpecTx == Init /\ [][NextTx]_vars

----------------------------------------------------------------------------
(* FIFO control *)

FifoEnableValue(fifo_control_register, state) ==
    IF ~state THEN BitAnd(fifo_control_register, 254)
    ELSE BitOr(fifo_control_register, 1)

FifoResetValue(temp_fcr, state) ==
    IF ~state THEN BitOr(temp_fcr, 4) ELSE BitOr(temp_fcr, 2)

\* the `state` argument of the running fifo_enable
FifoEnableState == IF op.name = "fifo_enable" THEN op.state ELSE TRUE

CallFifoEnable(c, state) ==
    Call([name |-> "fifo_enable", channel |-> c, state |-> state], "fe_read")

FifoEnableRead ==
    /\ pc = "fe_read"
    /\ \E e \in BusOutcomes : \E v \in ReadResults(op.channel, 2, e) :
        /\ read_register(op.channel, 2, v, e)
        /\ IF e # "none"
           THEN Return(Err(e)) /\ UNCHANGED loc
           ELSE /\ loc' = [loc EXCEPT !.tmp = FifoEnableValue(v, FifoEnableState)]
                /\ pc' = "fe_write"
                /\ UNCHANGED ret
    /\ UNCHANGED <<driver, pins, fifo, op, rx0, arrived>>

AfterFifoEnable_LineFirst == "sl_read"

\* initalise_uart: what follows fifo_enable(channel, true)
AfterFifoEnable == "sb_presc"

FifoEnableWrite ==
    /\ pc = "fe_write"
    /\ \E e \in BusOutcomes :
        /\ write_register(op.channel, 2, loc.tmp, e)
        /\ IF e # "none"
           THEN Return(Err(e))
           ELSE IF op.name = "initalise_uart"
           THEN pc' = AfterFifoEnable /\ UNCHANGED ret
           ELSE Return(Ok(Unit))
    /\ UNCHANGED <<driver, pins, fifo, op, loc, rx0, arrived>>

CallFifoReset(c, state) ==
    Call([name |-> "fifo_reset", channel |-> c, state |-> state], "fr_read")

FifoResetRead ==
    /\ pc = "fr_read"
    /\ \E e \in BusOutcomes : \E v \in ReadResults(op.channel, 2, e) :
        /\ read_register(op.channel, 2, v, e)
        /\ IF e # "none"
           THEN Return(Err(e)) /\ UNCHANGED loc
           ELSE /\ loc' = [loc EXCEPT !.tmp = FifoResetValue(v, op.state)]
                /\ pc' = "fr_write"
                /\ UNCHANGED ret
    /\ UNCHANGED <<driver, pins, fifo, op, rx0, arrived>>

FifoResetWrite ==
    /\ pc = "fr_write"
    /\ \E e \in BusOutcomes :
        /\ write_register(op.channel, 2, loc.tmp, e)
        /\ IF e # "none" THEN Return(Err(e)) ELSE Return(Ok(Unit))
    /\ UNCHANGED <<driver, pins, fifo, op, loc, rx0, arrived>>

----------------------------------------------------------------------------
(* Configuration *)

Prescaler(mcr) == IF mcr = 0 THEN 1 ELSE 4

\* the denominator `baudrate * 16` of the divisor, in u32:
\* (baudrate * 16) mod 2^32 = (baudrate mod 2^28) * 16
BaudDenominator(baudrate) == (baudrate % (2 ^ 28)) * 16

Divisor(prescaler, baudrate) ==
    (CRYSTAL_FREQ \div prescaler) \div BaudDenominator(baudrate)

\* u8::try_from(x) succeeds
FitsU8(x) == x <= 255

WordLengthBits(data_length) ==
    CASE data_length = 5 -> 0
      [] data_length = 6 -> 1
      [] data_length = 7 -> 2
      [] OTHER -> 3

StopBitsFlag(stop_length) == IF stop_length = 2 THEN 4 ELSE 0

ParityBits_EvenNoEnable(parity_select) ==
    CASE parity_select = "NoParity" -> 0
      [] parity_select = "Odd" -> 8
      [] parity_select = "Even" -> 16
      [] parity_select = "ForcedParity1" -> 40
      [] parity_select = "ForcedParity0" -> 56

ParityBits(parity_select) ==
    CASE parity_select = "NoParity" -> 0
      [] parity_select = "Odd" -> 8
      [] parity_select = "Even" -> 24
      [] parity_select = "ForcedParity1" -> 40
      [] parity_select = "ForcedParity0" -> 56

\* set_line: the byte composed from the line control register just read
SetLineValue(lcr, data_length, parity_select, stop_length) ==
    BitOr(BitOr(BitOr(BitAnd(lcr, 192), WordLengthBits(data_length)),
                StopBitsFlag(stop_length)),
          ParityBits(parity_select))

CallInitaliseUart(c, baud, word_length, parity, stop_bit) ==
    Call([name |-> "initalise_uart", channel |-> c, baud |-> baud,
          word_length |-> word_length, parity |-> parity,
          stop_bit |-> stop_bit], "fe_read")

\* temp_line_control_register |= 0x80
LatchEnable(lcr) == BitOr(lcr, 128)

LatchDisable_Mask3F(lcr) == BitAnd(lcr, 63)

\* temp_line_control_register &= 0x7F
LatchDisable(lcr) == BitAnd(lcr, 127)

\* set_baudrate: read the prescaler select, then compute the divisor
SetBaudratePrescaler ==
    /\ pc = "sb_presc"
    /\ \E e \in BusOutcomes : \E v \in ReadResults(op.channel, 4, e) :
        /\ read_register(op.channel, 4, v, e)
        /\ IF e # "none"
           THEN Return(Err(e)) /\ UNCHANGED loc
           ELSE IF BaudDenominator(op.baud) = 0
           THEN Abort("attempt to divide by zero") /\ UNCHANGED loc
           ELSE /\ loc' = [loc EXCEPT !.divisor = Divisor(Prescaler(v), op.baud)]
                /\ pc' = "sb_lcr_read"
                /\ UNCHANGED ret
    /\ UNCHANGED <<driver, pins, fifo, op, rx0, arrived>>

SetBaudrateLcrRead ==
    /\ pc = "sb_lcr_read"
    /\ \E e \in BusOutcomes : \E v \in ReadResults(op.channel, 3, e) :
        /\ read_register(op.channel, 3, v, e)
        /\ IF e # "none"
           THEN Return(Err(e)) /\ UNCHANGED loc
           ELSE /\ loc' = [loc EXCEPT !.tmp = LatchEnable(v)]
                /\ pc' = "sb_lcr_set"
                /\ UNCHANGED ret
    /\ UNCHANGED <<driver, pins, fifo, op, rx0, arrived>>

SetBaudrateLatchEnable ==
    /\ pc = "sb_lcr_set"
    /\ \E e \in BusOutcomes :
        /\ write_register(op.channel, 3, loc.tmp, e)
        /\ IF e # "none" THEN Return(Err(e))
           ELSE pc' = "sb_dll" /\ UNCHANGED ret
    /\ UNCHANGED <<driver, pins, fifo, op, loc, rx0, arrived>>

SetBaudrateDivisorLow_Rollback ==
    /\ pc = "sb_dll"
    /\ IF ~FitsU8(loc.divisor)
       THEN Abort("called unwrap on TryFromIntError")
            /\ UNCHANGED <<trace, rxfifo, gpio>>
       ELSE \E e \in BusOutcomes :
            IF e # "none"
            THEN /\ trace' = trace \o
                        <<WriteTxn(op.channel, 0, loc.divisor, e),
                          WriteTxn(op.channel, 3, LatchDisable(loc.tmp),
                                   "none")>>
                 /\ Return(Err(e))
                 /\ UNCHANGED <<rxfifo, gpio>>
            ELSE /\ write_register(op.channel, 0, loc.divisor, e)
                 /\ pc' = "sb_dlh" /\ UNCHANGED ret
    /\ UNCHANGED <<driver, pins, fifo, op, loc, rx0, arrived>>

\* `divisor.try_into().unwrap()` is evaluated before the write is issued;
\* a failed write returns through `?` with the divisor latch still enabled
SetBaudrateDivisorLow ==
    /\ pc = "sb_dll"
    /\ IF ~FitsU8(loc.divisor)
       THEN Abort("called unwrap on TryFromIntError")
            /\ UNCHANGED <<trace, rxfifo, gpio>>
       ELSE \E e \in BusOutcomes :
            /\ write_register(op.channel, 0, loc.divisor, e)
            /\ IF e # "none" THEN Return(Err(e))
               ELSE pc' = "sb_dlh" /\ UNCHANGED ret
    /\ UNCHANGED <<driver, pins, fifo, op, loc, rx0, arrived>>

SetBaudrateDivisorHigh ==
    /\ pc = "sb_dlh"
    /\ IF ~FitsU8(loc.divisor \div 256)
       THEN Abort("called unwrap on TryFromIntError")
            /\ UNCHANGED <<trace, rxfifo, gpio>>
       ELSE \E e \in BusOutcomes :
            /\ write_register(op.channel, 1, loc.divisor \div 256, e)
            /\ IF e # "none" THEN Return(Err(e))
               ELSE pc' = "sb_lcr_clear" /\ UNCHANGED ret
    /\ UNCHANGED <<driver, pins, fifo, op, loc, rx0, arrived>>

SetBaudrateLatchDisable ==
    /\ pc = "sb_lcr_clear"
    /\ \E e \in BusOutcomes :
        /\ write_register(op.channel, 3, LatchDisable(loc.tmp), e)
        /\ IF e # "none" THEN Return(Err(e)) /\ UNCHANGED loc
           ELSE /\ pc' = "sl_read"
                /\ loc' = [loc EXCEPT !.tmp = LatchDisable(loc.tmp)]
                /\ UNCHANGED ret
    /\ UNCHANGED <<driver, pins, fifo, op, rx0, arrived>>

SetLineRead ==
    /\ pc = "sl_read"
    /\ \E e \in BusOutcomes : \E v \in ReadResults(op.channel, 3, e) :
        /\ read_register(op.channel, 3, v, e)
        /\ IF e # "none"
           THEN Return(Err(e)) /\ UNCHANGED loc
           ELSE /\ loc' = [loc EXCEPT !.tmp =
                            SetLineValue(v, op.word_length, op.parity,
                                         op.stop_bit)]
                /\ pc' = "sl_write"
                /\ UNCHANGED ret
    /\ UNCHANGED <<driver, pins, fifo, op, rx0, arrived>>

SetLineWrite ==
    /\ pc = "sl_write"
    /\ \E e \in BusOutcomes :
        /\ write_register(op.channel, 3, loc.tmp, e)
        /\ IF e # "none" THEN Return(Err(e)) ELSE Return(Ok(Unit))
    /\ UNCHANGED <<driver, pins, fifo, op, loc, rx0, arrived>>

NextCfg ==
    \/ Resume
    \/ \E c \in Channels, st \in BOOLEAN : CallFifoEnable(c, st)
    \/ FifoEnableRead
    \/ FifoEnableWrite
    \/ \E c \in Channels, st \in BOOLEAN : CallFifoReset(c, st)
    \/ FifoResetRead
    \/ FifoResetWrite
    \/ \E c \in Channels, b \in BaudRates, w \in WordLengths,
          p \in Parities, sb \in StopBits : CallInitaliseUart(c, b, w, p, sb)
    \/ SetBaudratePrescaler
    \/ SetBaudrateLcrRead
    \/ SetBaudrateLatchEnable
    \/ SetBaudrateDivisorLow
    \/ SetBaudrateDivisorHigh
    \/ SetBaudrateLatchDisable
    \/ SetLineRead
    \/ SetLineWrite

SpecCfg == Init /\ [][NextCfg]_vars

----------------------------------------------------------------------------
(* Single-transaction operations *)

CallFifoAvailableSpace(c) ==
    Call([name |-> "fifo_available_space", channel |-> c], "fas_read")

FifoAvailableSpace ==
    /\ pc = "fas_read"
    /\ \E e \in BusOutcomes : \E v \in ReadResults(op.channel, 8, e) :
        /\ read_register(op.channel, 8, v, e)
        /\ IF e # "none" THEN Return(Err(e)) ELSE Return(Ok(<<v>>))
    /\ UNCHANGED <<driver, pins, fifo, op, loc, rx0, arrived>>

CallInterruptControl(c, interrupt_enable_register) ==
    Call([name |-> "interrupt_control", channel |-> c,
          value |-> interrupt_enable_register], "ic_write")

InterruptControl ==
    /\ pc = "ic_write"
    /\ \E e \in BusOutcomes :
        /\ write_register(op.channel, 1, op.value, e)
        /\ IF e # "none" THEN Return(Err(e)) ELSE Return(Ok(Unit))
    /\ UNCHANGED <<driver, pins, fifo, op, loc, rx0, arrived>>

\* new called with any 8-bit device address
InitAddr == \E r \in 0..255 : InitWith(r)

NextAddr ==
    \/ Resume
    \/ \E c \in Channels : CallFifoAvailableSpace(c)
    \/ FifoAvailableSpace
    \/ \E c \in Channels, v \in RegValues : CallInterruptControl(c, v)
    \/ InterruptControl

SpecAddr == InitAddr /\ [][NextAddr]_vars

----------------------------------------------------------------------------
(* GPIO *)

BitNot(a) == 255 - a

GpioClearBit_NoComplement(reg, pin_number) ==
    BitAnd(reg, Shl8(1, pin_number))

\* reg |= 0x01 << pin
GpioSetBit(reg, pin_number) == BitOr(reg, Shl8(1, pin_number))

\* reg &= !(0x01 << pin)
GpioClearBit(reg, pin_number) == BitAnd(reg, BitNot(Shl8(1, pin_number)))

\* gpio_get_pin_state: 0 for PinState::Low, 1 for PinState::High
PinStateOf(temp_iostate, pin_number) ==
    IF BitAnd(temp_iostate, Shl8(1, pin_number)) = 0 THEN 0 ELSE 1

CallGpioSetPinMode(pin_number, pin_direction) ==
    Call([name |-> "gpio_set_pin_mode", channel |-> "A", pin |-> pin_number,
          value |-> pin_direction], "gm_read")

GpioSetPinModeRead ==
    /\ pc = "gm_read"
    /\ \E e \in BusOutcomes : \E v \in ReadResults("A", 10, e) :
        /\ read_register("A", 10, v, e)
        /\ IF e # "none"
           THEN Return(Err(e)) /\ UNCHANGED loc
           ELSE /\ loc' = [loc EXCEPT !.tmp =
                            IF op.value = "Output" THEN GpioSetBit(v, op.pin)
                            ELSE GpioClearBit(v, op.pin)]
                /\ pc' = "gm_write"
                /\ UNCHANGED ret
    /\ UNCHANGED <<driver, pins, fifo, op, rx0, arrived>>

GpioSetPinModeWrite ==
    /\ pc = "gm_write"
    /\ \E e \in BusOutcomes :
        /\ write_register("A", 10, loc.tmp, e)
        /\ IF e # "none"
           THEN Return(Err(e)) /\ UNCHANGED pins
           ELSE /\ Return(Ok(Unit))
                /\ pins' = [pins EXCEPT !.dir[op.pin] =
                              IF op.value = "Output" THEN 1 ELSE 0]
    /\ UNCHANGED <<driver, fifo, op, loc, rx0, arrived>>

CallGpioSetPinState(pin_number, pin_state) ==
    Call([name |-> "gpio_set_pin_state", channel |-> "A", pin |-> pin_number,
          value |-> pin_state], "gs_read")

GpioSetPinStateRead ==
    /\ pc = "gs_read"
    /\ \E e \in BusOutcomes : \E v \in ReadResults("A", 11, e) :
        /\ read_register("A", 11, v, e)
        /\ IF e # "none"
           THEN Return(Err(e)) /\ UNCHANGED loc
           ELSE /\ loc' = [loc EXCEPT !.tmp =
                            IF op.value = "High" THEN GpioSetBit(v, op.pin)
                            ELSE GpioClearBit(v, op.pin)]
                /\ pc' = "gs_write"
                /\ UNCHANGED ret
    /\ UNCHANGED <<driver, pins, fifo, op, rx0, arrived>>

GpioSetPinStateWrite ==
    /\ pc = "gs_write"
    /\ \E e \in BusOutcomes :
        /\ write_register("A", 11, loc.tmp, e)
        /\ IF e # "none"
           THEN Return(Err(e)) /\ UNCHANGED pins
           ELSE /\ Return(Ok(Unit))
                /\ pins' = [pins EXCEPT !.state[op.pin] =
                              IF op.value = "High" THEN 1 ELSE 0]
    /\ UNCHANGED <<driver, fifo, op, loc, rx0, arrived>>

CallGpioGetPinState(pin_number) ==
    Call([name |-> "gpio_get_pin_state", channel |-> "A", pin |-> pin_number],
         "gg_read")

GpioGetPinState ==
    /\ pc = "gg_read"
    /\ \E e \in BusOutcomes : \E v \in ReadResults("A", 11, e) :
        /\ read_register("A", 11, v, e)
        /\ IF e # "none" THEN Return(Err(e))
           ELSE Return(Ok(<<PinStateOf(v, op.pin)>>))
    /\ UNCHANGED <<driver, pins, fifo, op, loc, rx0, arrived>>

\* the chip's IODir and IOState hold any of the sampled values at first
InitGpio ==
    \E r \in RawAddresses, d \in GpioInitial, st \in GpioInitial :
        InitChip(r, d, st)

NextGpio ==
    \/ Resume
    \/ \E p \in PinSamples, m \in {"Input", "Output"} : CallGpioSetPinMode(p, m)
    \/ GpioSetPinModeRead
    \/ GpioSetPinModeWrite
    \/ \E p \in PinSamples, st \in {"Low", "High"} : CallGpioSetPinState(p, st)
    \/ GpioSetPinStateRead
    \/ GpioSetPinStateWrite
    \/ \E p \in PinSamples : CallGpioGetPinState(p)
    \/ GpioGetPinState

SpecGpio == InitGpio /\ [][NextGpio]_vars

----------------------------------------------------------------------------
(* Ping *)

\* the four scratch register checks of ping, in program order
PingChecks ==
    <<[channel |-> "A", pattern |-> 85], [channel |-> "A", pattern |-> 170],
      [channel |-> "B", pattern |-> 85], [channel |-> "B", pattern |-> 170]>>

PingMatches_EitherPattern(readback, pattern) == readback \in {85, 170}

\* the readback test `read_register(..)? != pattern` does not fire
PingMatches(readback, pattern) == readback = pattern

CallPing == Call([name |-> "ping", channel |-> "A"], "pg_write")

\* loc.i checks are complete; write the pattern of the next one
PingWrite ==
    /\ pc = "pg_write"
    /\ \E e \in BusOutcomes :
        /\ write_register(PingChecks[loc.i + 1].channel, 7,
                          PingChecks[loc.i + 1].pattern, e)
        /\ IF e # "none" THEN Return(Err(e))
           ELSE pc' = "pg_read" /\ UNCHANGED ret
    /\ UNCHANGED <<driver, pins, fifo, op, loc, rx0, arrived>>

PingRead ==
    /\ pc = "pg_read"
    /\ LET chk == PingChecks[loc.i + 1] IN
       \E e \in BusOutcomes : \E v \in ReadResults(chk.channel, 7, e) :
        /\ read_register(chk.channel, 7, v, e)
        /\ IF e # "none" THEN Return(Err(e)) /\ UNCHANGED loc
           ELSE IF ~PingMatches(v, chk.pattern)
           THEN Return(Ok(<<0>>)) /\ UNCHANGED loc
           ELSE IF loc.i + 1 = Len(PingChecks)
           THEN Return(Ok(<<1>>)) /\ UNCHANGED loc
           ELSE /\ loc' = [loc EXCEPT !.i = loc.i + 1]
                /\ pc' = "pg_write"
                /\ UNCHANGED ret
    /\ UNCHANGED <<driver, pins, fifo, op, rx0, arrived>>

NextPing ==
    \/ Resume
    \/ CallPing
    \/ PingWrite
    \/ PingRead

SpecPing == Init /\ [][NextPing]_vars

----------------------------------------------------------------------------
(* Interrupt decoding *)

IsrMasked_KeepBit0(interrupt_identification_register) ==
    BitAnd(interrupt_identification_register, 63)

\* interrupt_identification_register &= 0x3E
IsrMasked(interrupt_identification_register) ==
    BitAnd(interrupt_identification_register, 62)

\* the match of isr on the masked register value
IsrEvent(masked) ==
    CASE masked = 6 -> "RECEIVE_LINE_STATUS_ERROR"
      [] masked = 12 -> "RECEIVE_TIMEOUT_INTERRUPT"
      [] masked = 4 -> "RHR_INTERRUPT"
      [] masked = 2 -> "THR_INTERRUPT"
      [] masked = 0 -> "MODEM_INTERRUPT"
      [] masked = 48 -> "INPUT_PIN_CHANGE_STATE"
      [] masked = 16 -> "RECEIVE_XOFF"
      [] masked = 32 -> "CTS_RTS_CHANGE"
      [] OTHER -> "UNKNOWN"

CallIsr(c) == Call([name |-> "isr", channel |-> c], "isr_read")

\* the interrupt identification register may hold any byte
Isr ==
    /\ pc = "isr_read"
    /\ \E e \in BusOutcomes :
       \E v \in (IF e = "none" THEN IirValues ELSE {0}) :
        /\ read_register(op.channel, 2, v, e)
        /\ IF e # "none" THEN Return(Err(e))
           ELSE Return(Ok(<<IsrEvent(IsrMasked(v))>>))
    /\ UNCHANGED <<driver, pins, fifo, op, loc, rx0, arrived>>

NextIsr ==
    \/ Resume
    \/ \E c \in Channels : CallIsr(c)
    \/ Isr

SpecIsr == Init /\ [][NextIsr]_vars

----------------------------------------------------------------------------
(* Extra features *)

\* FeaturesRegister: the discriminant of each variant
FeaturesRegister ==
    [IrDaFast |-> 128, AutoRs485RTSOutputInversion |-> 32,
     AutoRs485DirectionControl |-> 16, TxDisable |-> 4, RxDisable |-> 2,
     Multidrop |-> 1]

EnableFeaturesValue_Direct(efcr, feature, enable) ==
    IF enable THEN BitOr(efcr, FeaturesRegister[feature])
    ELSE BitAnd(efcr, BitNot(FeaturesRegister[feature]))

EnableFeaturesValue(efcr, feature, enable) ==
    IF ~enable THEN BitOr(efcr, FeaturesRegister[feature])
    ELSE BitAnd(efcr, BitNot(FeaturesRegister[feature]))

CallEnableFeatures(c, feature, enable) ==
    Call([name |-> "enable_features", channel |-> c, feature |-> feature,
          enable |-> enable], "ef_read")

\* the extra features control register may hold any byte
EnableFeaturesRead ==
    /\ pc = "ef_read"
    /\ \E e \in BusOutcomes :
       \E v \in (IF e = "none" THEN EfcrValues ELSE {0}) :
        /\ read_register(op.channel, 15, v, e)
        /\ IF e # "none" THEN Return(Err(e)) /\ UNCHANGED loc
           ELSE /\ loc' = [loc EXCEPT !.tmp =
                            EnableFeaturesValue(v, op.feature, op.enable)]
                /\ pc' = "ef_write"
                /\ UNCHANGED ret
    /\ UNCHANGED <<driver, pins, fifo, op, rx0, arrived>>

EnableFeaturesWrite ==
    /\ pc = "ef_write"
    /\ \E e \in BusOutcomes :
        /\ write_register(op.channel, 15, loc.tmp, e)
        /\ IF e # "none" THEN Return(Err(e)) ELSE Return(Ok(Unit))
    /\ UNCHANGED <<driver, pins, fifo, op, loc, rx0, arrived>>

NextFeatures ==
    \/ Resume
    \/ \E c \in Channels, f \in DOMAIN FeaturesRegister, en \in BOOLEAN :
          CallEnableFeatures(c, f, en)
    \/ EnableFeaturesRead
    \/ EnableFeaturesWrite

SpecFeatures == Init /\ [][NextFeatures]_vars

----------------------------------------------------------------------------
(* The two register access primitives on their own *)

CallReadRegister(c, reg_address) ==
    Call([name |-> "read_register", channel |-> c, reg |-> reg_address],
         "rr_txn")

ReadRegister ==
    /\ pc = "rr_txn"
    /\ \E e \in BusOutcomes : \E v \in ReadResults(op.channel, op.reg, e) :
        /\ read_register(op.channel, op.reg, v, e)
        /\ IF e # "none" THEN Return(Err(e)) ELSE Return(Ok(<<v>>))
    /\ UNCHANGED <<driver, pins, fifo, op, loc, rx0, arrived>>

CallWriteRegister(c, reg_address, payload) ==
    Call([name |-> "write_register", channel |-> c, reg |-> reg_address,
          value |-> payload], "wr_txn")

WriteRegister ==
    /\ pc = "wr_txn"
    /\ \E e \in BusOutcomes :
        /\ write_register(op.channel, op.reg, op.value, e)
        /\ IF e # "none" THEN Return(Err(e)) ELSE Return(Ok(Unit))
    /\ UNCHANGED <<driver, pins, fifo, op, loc, rx0, arrived>>

NextReg ==
    \/ Resume
    \/ \E c \in Channels, r \in RegOffsets : CallReadRegister(c, r)
    \/ ReadRegister
    \/ \E c \in Channels, r \in RegOffsets, v \in RegValues :
          CallWriteRegister(c, r, v)
    \/ WriteRegister

SpecReg == Init /\ [][NextReg]_vars

----------------------------------------------------------------------------
(* FIFO trigger level *)

TriggerValue_Swapped(rx_fifo, length) ==
    IF rx_fifo THEN Shl8(length, 4) ELSE length

\* the byte written to offset 0x07: `length << 4` for TX, `length` for RX
TriggerValue(rx_fifo, length) ==
    IF ~rx_fifo THEN Shl8(length, 4) ELSE length

CallFifoSetTriggerLevel(c, rx_fifo, length) ==
    Call([name |-> "fifo_set_trigger_level", channel |-> c,
          rx_fifo |-> rx_fifo, length |-> length], "tl_mcr_read")

TriggerMcrRead ==
    /\ pc = "tl_mcr_read"
    /\ \E e \in BusOutcomes : \E v \in ReadResults(op.channel, 4, e) :
        /\ read_register(op.channel, 4, v, e)
        /\ IF e # "none" THEN Return(Err(e)) /\ UNCHANGED loc
           ELSE /\ loc' = [loc EXCEPT !.tmp = BitOr(v, 4)]
                /\ pc' = "tl_mcr_write"
                /\ UNCHANGED ret
    /\ UNCHANGED <<driver, pins, fifo, op, rx0, arrived>>

TriggerMcrWrite ==
    /\ pc = "tl_mcr_write"
    /\ \E e \in BusOutcomes :
        /\ write_register(op.channel, 4, loc.tmp, e)
        /\ IF e # "none" THEN Return(Err(e))
           ELSE pc' = "tl_efr_read" /\ UNCHANGED ret
    /\ UNCHANGED <<driver, pins, fifo, op, loc, rx0, arrived>>

TriggerEfrRead ==
    /\ pc = "tl_efr_read"
    /\ \E e \in BusOutcomes : \E v \in ReadResults(op.channel, 2, e) :
        /\ read_register(op.channel, 2, v, e)
        /\ IF e # "none" THEN Return(Err(e)) /\ UNCHANGED loc
           ELSE /\ loc' = [loc EXCEPT !.tmp = v]
                /\ pc' = "tl_efr_enable"
                /\ UNCHANGED ret
    /\ UNCHANGED <<driver, pins, fifo, op, rx0, arrived>>

TriggerEfrEnable ==
    /\ pc = "tl_efr_enable"
    /\ \E e \in BusOutcomes :
        /\ write_register(op.channel, 2, BitOr(loc.tmp, 16), e)
        /\ IF e # "none" THEN Return(Err(e))
           ELSE pc' = "tl_level" /\ UNCHANGED ret
    /\ UNCHANGED <<driver, pins, fifo, op, loc, rx0, arrived>>

TriggerLevelWrite ==
    /\ pc = "tl_level"
    /\ \E e \in BusOutcomes :
        /\ write_register(op.channel, 7, TriggerValue(op.rx_fifo, op.length), e)
        /\ IF e # "none" THEN Return(Err(e))
           ELSE pc' = "tl_efr_restore" /\ UNCHANGED ret
    /\ UNCHANGED <<driver, pins, fifo, op, loc, rx0, arrived>>

TriggerEfrRestore ==
    /\ pc = "tl_efr_restore"
    /\ \E e \in BusOutcomes :
        /\ write_register(op.channel, 2, loc.tmp, e)
        /\ IF e # "none" THEN Return(Err(e)) ELSE Return(Ok(Unit))
    /\ UNCHANGED <<driver, pins, fifo, op, loc, rx0, arrived>>

NextTrigger ==
    \/ Resume
    \/ \E c \in Channels, rx \in BOOLEAN, n \in TriggerLengths :
          CallFifoSetTriggerLevel(c, rx, n)
    \/ TriggerMcrRead
    \/ TriggerMcrWrite
    \/ TriggerEfrRead
    \/ TriggerEfrEnable
    \/ TriggerLevelWrite
    \/ TriggerEfrRestore

SpecTrigger == Init /\ [][NextTrigger]_vars

----------------------------------------------------------------------------
(* Peek *)

PeekRequested_Negated(flag) == ~flag

\* peek: the guard `if self.peek_flags[channel as usize]`
PeekRequested(flag) == flag

\* peek runs in one step: with the flag off it does nothing; with the flag
\* on it calls read_byte (one or two transactions), stores the byte and
\* sets the flag when a byte was read
Peek(c) ==
    /\ pc = "idle"
    /\ op' = [name |-> "peek", channel |-> c]
    /\ loc' = Loc0
    /\ rx0' = rxfifo
    /\ arrived' = FALSE
    /\ IF ~PeekRequested(peek_flags[c])
       THEN /\ trace' = <<>>
            /\ Return(Ok(Unit))
            /\ UNCHANGED <<fifo, peek_flags, peek_buf, rxfifo>>
       ELSE \E e1 \in BusOutcomes : \E n \in ReadResults(c, 9, e1) :
            IF e1 # "none"
            THEN /\ trace' = <<ReadTxn(c, 9, n, e1)>>
                 /\ Return(Err(e1))
                 /\ UNCHANGED <<fifo, peek_flags, peek_buf, rxfifo>>
            ELSE /\ fifo' = [fifo EXCEPT ![c] = n]
                 /\ IF ~ReadByteHasData(n)
                    THEN /\ trace' = <<ReadTxn(c, 9, n, e1)>>
                         /\ peek_buf' = [peek_buf EXCEPT ![c] = <<>>]
                         /\ Return(Ok(Unit))
                         /\ UNCHANGED <<peek_flags, rxfifo>>
                    ELSE \E e2 \in BusOutcomes :
                         \E v \in ReadResults(c, 0, e2) :
                         /\ trace' = <<ReadTxn(c, 9, n, e1),
                                       ReadTxn(c, 0, v, e2)>>
                         /\ IF e2 # "none"
                            THEN /\ Return(Err(e2))
                                 /\ UNCHANGED <<peek_flags, peek_buf, rxfifo>>
                            ELSE /\ peek_buf' = [peek_buf EXCEPT ![c] = <<v>>]
                                 /\ peek_flags' =
                                        [peek_flags EXCEPT ![c] = TRUE]
                                 /\ rxfifo' = [rxfifo EXCEPT ![c] = Tail(@)]
                                 /\ Return(Ok(Unit))
    /\ UNCHANGED <<raw, address, gpio, pins>>

NextPeek ==
    \/ NextRx
    \/ \E c \in Channels : Peek(c)

SpecPeek == Init /\ [][NextPeek]_vars

----------------------------------------------------------------------------
(* Blocking waits: flush, and polling without a limit *)

FlushReady_AnyBit(lsr) == lsr # 0

\* flush: the loop condition `(lsr & 0x20) == 0` no longer holds
FlushReady(lsr) == BitAnd(lsr, 32) # 0

CallFlush(c) == Call([name |-> "flush", channel |-> c], "fl_poll")

\* flush: one poll of the line status register; loc.n polls of this call
\* found the holding register busy
FlushPoll ==
    /\ pc = "fl_poll"
    /\ \E e \in BusOutcomes : \E v \in ReadResults(op.channel, 5, e) :
        /\ read_register(op.channel, 5, v, e)
        /\ IF e # "none"
           THEN Return(Err(e)) /\ UNCHANGED loc
           ELSE IF FlushReady(v)
           THEN Return(Ok(Unit)) /\ loc' = [loc EXCEPT !.tmp = v]
           ELSE /\ loc.n < MaxPolls
                /\ loc' = [loc EXCEPT !.tmp = v, !.n = loc.n + 1]
                /\ UNCHANGED <<pc, ret>>
    /\ UNCHANGED <<driver, pins, fifo, op, rx0, arrived>>

\* write_byte: a further poll that finds the holding register busy after
\* MaxPolls busy polls; the loop goes on, trace keeps the first MaxPolls
WriteBytePollBusy ==
    /\ pc = "wb_poll"
    /\ loc.n = MaxPolls
    /\ \E v \in ReadResults(op.channel, 5, "none") :
        /\ ~WriteByteReady(v)
        /\ loc' = [loc EXCEPT !.tmp = v]
    /\ UNCHANGED <<driver, pins, fifo, rxfifo, gpio, pc, op, trace, ret,
                   rx0, arrived>>

\* flush: the same for its loop
FlushPollBusy ==
    /\ pc = "fl_poll"
    /\ loc.n = MaxPolls
    /\ \E v \in ReadResults(op.channel, 5, "none") :
        /\ ~FlushReady(v)
        /\ loc' = [loc EXCEPT !.tmp = v]
    /\ UNCHANGED <<driver, pins, fifo, rxfifo, gpio, pc, op, trace, ret,
                   rx0, arrived>>

NextBlocking ==
    \/ NextTx
    \/ \E c \in Channels : CallFlush(c)
    \/ FlushPoll
    \/ WriteBytePollBusy
    \/ FlushPollBusy

\* the calling thread keeps running, and the poll that ends a wait (bit 5
\* reported, or the bus failing) eventually happens
BlockingFairness ==
    /\ WF_vars(WriteBytePoll /\ pc' # "wb_poll")
    /\ WF_vars(FlushPoll /\ pc' # "fl_poll")
    /\ WF_vars(WriteByteData)

SpecBlocking == Init /\ [][NextBlocking]_vars /\ BlockingFairness

----------------------------------------------------------------------------
(* Properties *)

Failed(t) == t.err # "none"
NoFailure == \A i \in DOMAIN trace : ~Failed(trace[i])
SubAddress(c, r) == r * 8 + ChanIdx(c) * 2
IsRead(t, c, r) == t.kind = "write_read" /\ t.out = <<SubAddress(c, r)>>
IsWrite(t, c, r) ==
    t.kind = "write" /\ Len(t.out) = 2 /\ t.out[1] = SubAddress(c, r)
Bit(v, k) == (v \div (2 ^ k)) % 2
Min(a, b) == IF a < b THEN a ELSE b
ChipAddresses == 72..87

\* C1: for every raw address handed to new, the stored chip address and the
\* target address of every bus transaction lie in [0x48, 0x57].
C1_AddressInRange ==
    /\ address \in ChipAddresses
    /\ \A i \in DOMAIN trace : trace[i].addr \in ChipAddresses

\* C2: a failed bus transaction is the last one the operation issues, and
\* the operation returns that failure to its caller.
C2_FailureReturned ==
    \A i \in DOMAIN trace :
        Failed(trace[i]) =>
            /\ i = Len(trace)
            /\ pc = "done"
            /\ ret = Err(trace[i].err)

\* C3: with no byte arriving during the call, read(channel, quantity)
\* returns at most min(quantity, n) bytes, n the RX FIFO level at call time.
C3_ReadBounded ==
    (pc = "done" /\ op.name = "read" /\ ~arrived /\ ret.kind = "ok") =>
        Len(ret.val) <= Min(op.quantity, Len(rx0[op.channel]))

\* C4: with no byte arriving during the call and no bus failure, read_all
\* returns exactly the bytes that were in the RX FIFO at call time, in FIFO
\* order, and leaves the FIFO empty.
C4_ReadAllDrains ==
    (pc = "done" /\ op.name = "read_all" /\ ~arrived /\ NoFailure) =>
        /\ ret = Ok(rx0[op.channel])
        /\ rxfifo[op.channel] = <<>>

C4_Witness ==
    /\ pc = "done" /\ op.name = "read_all" /\ ~arrived /\ NoFailure
    /\ Len(rx0[op.channel]) = 2
    /\ rx0[op.channel][1] # rx0[op.channel][2]
    /\ ret.val = rx0[op.channel]
    /\ rxfifo[op.channel] = <<>>

IsTxWrite(t) == t.kind = "write"

\* C5: write issues the payload bytes to the data register once each and in
\* payload order; every data register write directly follows a successful
\* line status read on the same channel with bit 5 set, and nothing is
\* written right after a poll that found bit 5 clear.
C5_WriteHandshake ==
    op.name = "write" =>
        LET written == SelectSeq(trace, IsTxWrite)
        IN  /\ \A i \in DOMAIN trace :
                  \/ IsRead(trace[i], op.channel, 5)
                  \/ IsWrite(trace[i], op.channel, 0)
            /\ \A i \in DOMAIN trace :
                  IsTxWrite(trace[i]) =>
                      /\ i > 1
                      /\ IsRead(trace[i - 1], op.channel, 5)
                      /\ ~Failed(trace[i - 1])
                      /\ Bit(trace[i - 1].val, 5) = 1
            /\ Len(written) <= Len(op.payload)
            /\ \A k \in DOMAIN written : written[k].out[2] = op.payload[k]
            /\ (pc = "done" /\ ret.kind = "ok") =>
                  (Len(written) = Len(op.payload) /\ NoFailure)

C5_Witness ==
    /\ pc = "done" /\ op.name = "write" /\ ret.kind = "ok"
    /\ Len(op.payload) = 2 /\ op.payload[1] # op.payload[2]
    /\ \E i \in DOMAIN trace :
          IsRead(trace[i], op.channel, 5) /\ Bit(trace[i].val, 5) = 0
    /\ Len(SelectSeq(trace, IsTxWrite)) = 2

\* C6: initialise_uart rejects a baud rate of 0 without dividing and without
\* writing a divisor byte, and rejects a word length outside {5,6,7,8}
\* without writing the line control register.
C6_InvalidConfigRejected ==
    op.name = "initalise_uart" =>
        /\ op.baud = 0 =>
              /\ ret.kind # "panic"
              /\ \A i \in DOMAIN trace :
                    ~IsWrite(trace[i], op.channel, 0)
                    /\ ~IsWrite(trace[i], op.channel, 1)
              /\ pc = "done" => ret.kind = "err"
        /\ op.word_length \notin {5, 6, 7, 8} =>
              /\ Len(trace) < 10
              /\ pc = "done" => ret.kind = "err"

\* the divisor as the specification computes it from the prescaler select
\* value read in the third transaction
ExpectedDivisor ==
    (1843200 \div (IF trace[3].val = 0 THEN 1 ELSE 4)) \div (op.baud * 16)

\* C7: for every baud rate in 1..115200 and either prescaler, set_baudrate
\* completes normally and writes divisor mod 256 to offset 0x00 and
\* divisor div 256 to offset 0x01.
C7_DivisorProgrammed ==
    (op.name = "initalise_uart" /\ op.baud \in 1..115200) =>
        /\ ret.kind # "panic"
        /\ Len(trace) >= 6 =>
              /\ IsWrite(trace[6], op.channel, 0)
              /\ trace[6].out[2] = ExpectedDivisor % 256
        /\ Len(trace) >= 7 =>
              /\ IsWrite(trace[7], op.channel, 1)
              /\ trace[7].out[2] = ExpectedDivisor \div 256

InitPattern ==
    <<[kind |-> "write_read", reg |-> 2], [kind |-> "write", reg |-> 2],
      [kind |-> "write_read", reg |-> 4], [kind |-> "write_read", reg |-> 3],
      [kind |-> "write", reg |-> 3], [kind |-> "write", reg |-> 0],
      [kind |-> "write", reg |-> 1], [kind |-> "write", reg |-> 3],
      [kind |-> "write_read", reg |-> 3], [kind |-> "write", reg |-> 3]>>

\* C8: initialise_uart issues its transactions in the order FIFO enable
\* (read, then write of offset 0x02 with bit 0 set), baud divisor
\* programming, line control programming; a failed transaction is the last
\* one issued and its failure is what the call returns.
C8_InitPhases ==
    op.name = "initalise_uart" =>
        /\ Len(trace) <= Len(InitPattern)
        /\ \A i \in DOMAIN trace :
              /\ trace[i].kind = InitPattern[i].kind
              /\ trace[i].out[1] = SubAddress(op.channel, InitPattern[i].reg)
        /\ Len(trace) >= 2 =>
              trace[2].out[2] = (trace[1].val \div 2) * 2 + 1
        /\ \A i \in DOMAIN trace :
              Failed(trace[i]) =>
                  /\ i = Len(trace)
                  /\ pc = "done"
                  /\ ret = Err(trace[i].err)
        /\ (pc = "done" /\ ret.kind = "ok") =>
              (Len(trace) = Len(InitPattern) /\ NoFailure)

C8_Witness ==
    /\ pc = "done" /\ op.name = "initalise_uart"
    /\ Len(trace) = 10
    /\ Failed(trace[10])
    /\ ret = Err(trace[10].err)
    /\ Bit(trace[1].val, 0) = 0

ParityCode(p) ==
    IF p = "NoParity" THEN 0
    ELSE IF p = "Odd" THEN 8
    ELSE IF p = "Even" THEN 24
    ELSE IF p = "ForcedParity1" THEN 40
    ELSE 56

\* C9: set_line writes (old & 0xC0) | word_code | stop_flag | parity_bits to
\* the line control register, old being the value it just read, for word
\* lengths 5..8, stop bits 1 or 2 and every parity.
C9_LineControlValue ==
    (op.name = "initalise_uart" /\ Len(trace) = 10
        /\ op.word_length \in {5, 6, 7, 8}) =>
        LET old == trace[9].val
            w == trace[10].out[2]
        IN  /\ w = (old \div 64) * 64 + (op.word_length - 5)
                    + (IF op.stop_bit = 2 THEN 4 ELSE 0) + ParityCode(op.parity)
            /\ (op.word_length = 8 /\ op.stop_bit = 1
                    /\ op.parity = "NoParity") => w % 64 = 3
            /\ (op.word_length = 7 /\ op.stop_bit = 2
                    /\ op.parity = "Even") => w % 64 = 30

C9_Witness ==
    /\ op.name = "initalise_uart" /\ Len(trace) = 10 /\ pc = "done"
    /\ ret.kind = "ok"
    /\ op.word_length = 7 /\ op.stop_bit = 2 /\ op.parity = "Even"
    /\ trace[9].val = 157
    /\ trace[10].out[2] = 158

\* C10: the byte fifo_reset writes to offset 0x02 has exactly one of bit 1
\* (TX reset) and bit 2 (RX reset) set, whatever the register read returned.
C10_ExactlyOneResetBit ==
    (op.name = "fifo_reset" /\ Len(trace) = 2) =>
        Bit(trace[2].out[2], 1) + Bit(trace[2].out[2], 2) = 1

GpioOps == {"gpio_set_pin_mode", "gpio_set_pin_state", "gpio_get_pin_state"}

\* the bit a pin must hold: the last value requested for it, or the bit of
\* the initial register value when the pin was never targeted
PinBit(requested, initial, p) ==
    IF requested[p] = -1 THEN Bit(initial, p) ELSE requested[p]

\* C11: with IODir/IOState holding the last value written, each pin's bit
\* equals the value requested by the most recent gpio_set_pin_mode /
\* gpio_set_pin_state for that pin, untouched pins keep their initial bit,
\* gpio_get_pin_state reports the IOState bit, and every transaction of
\* these operations carries the Channel A sub-address.
C11_GpioPins ==
    /\ \A p \in 0..7 :
          /\ Bit(gpio.iodir, p) = PinBit(pins.dir, pins.iodir0, p)
          /\ Bit(gpio.iostate, p) = PinBit(pins.state, pins.iostate0, p)
    /\ (pc = "done" /\ op.name = "gpio_get_pin_state" /\ ret.kind = "ok") =>
          ret.val = <<Bit(gpio.iostate, op.pin)>>
    /\ op.name \in GpioOps =>
          \A i \in DOMAIN trace :
              /\ trace[i].out[1] \in {10 * 8, 11 * 8}
              /\ trace[i].out[1] = IF op.name = "gpio_set_pin_mode"
                                   THEN 10 * 8 ELSE 11 * 8

C11_Witness ==
    /\ pc = "done" /\ op.name = "gpio_get_pin_state" /\ op.pin = 3
    /\ ret = Ok(<<1>>)
    /\ pins.iostate0 = 165 /\ pins.iodir0 = 165
    /\ pins.state[3] = 1 /\ pins.state[0] = 0
    /\ pins.dir[0] = 0 /\ pins.dir[3] = 1
    /\ gpio.iostate = 172 /\ gpio.iodir = 172

\* the channel and pattern of the k-th scratch check, k in 1..4
PingChannel(k) == IF k <= 2 THEN "A" ELSE "B"
PingPattern(k) == IF k % 2 = 1 THEN 85 ELSE 170

\* the i-th transaction of ping is the readback of a check, it succeeded and
\* it does not show the pattern written
PingMismatchAt(i) ==
    /\ i % 2 = 0
    /\ ~Failed(trace[i])
    /\ trace[i].val # PingPattern(i \div 2)

\* C12: ping writes 0x55 then 0xAA to offset 0x07 on Channel A, then on
\* Channel B, reading each back; it returns true iff all four readbacks
\* match, and false at the first mismatching readback, after which it issues
\* no transaction.
C12_Ping ==
    op.name = "ping" =>
        /\ Len(trace) <= 8
        /\ \A i \in DOMAIN trace :
              LET k == (i + 1) \div 2
              IN  IF i % 2 = 1
                  THEN /\ IsWrite(trace[i], PingChannel(k), 7)
                       /\ trace[i].out[2] = PingPattern(k)
                  ELSE IsRead(trace[i], PingChannel(k), 7)
        /\ \A i \in DOMAIN trace :
              PingMismatchAt(i) =>
                  (i = Len(trace) /\ pc = "done" /\ ret = Ok(<<0>>))
        /\ (pc = "done" /\ ret.kind = "ok") =>
              /\ ret.val \in {<<0>>, <<1>>}
              /\ ret.val = <<1>> <=>
                    (Len(trace) = 8 /\ NoFailure
                       /\ \A k \in 1..4 : trace[2 * k].val = PingPattern(k))
              /\ ret.val = <<0>> => PingMismatchAt(Len(trace))

C12_Witness ==
    /\ pc = "done" /\ op.name = "ping" /\ ret = Ok(<<0>>)
    /\ Len(trace) = 6
    /\ trace[6].val = 170

\* bits 1..5 of a byte, as a number
Bits1To5(v) == ((v \div 2) % 32) * 2

EventTable ==
    {<<6, "RECEIVE_LINE_STATUS_ERROR">>, <<12, "RECEIVE_TIMEOUT_INTERRUPT">>,
     <<4, "RHR_INTERRUPT">>, <<2, "THR_INTERRUPT">>, <<0, "MODEM_INTERRUPT">>,
     <<48, "INPUT_PIN_CHANGE_STATE">>, <<16, "RECEIVE_XOFF">>,
     <<32, "CTS_RTS_CHANGE">>}

\* C13: for every byte read from the interrupt identification register, isr
\* returns the event the table lists for (byte & 0x3E), Unknown when the
\* table has no entry; the result depends on bits 1..5 only and no masked
\* value has two events.
C13_IsrDecode ==
    (pc = "done" /\ op.name = "isr" /\ ret.kind = "ok") =>
        LET code == Bits1To5(trace[1].val)
            hits == {row \in EventTable : row[1] = code}
        IN  /\ IsRead(trace[1], op.channel, 2) /\ Len(trace) = 1
            /\ Cardinality(hits) <= 1
            /\ \A row \in hits : ret.val = <<row[2]>>
            /\ hits = {} => ret.val = <<"UNKNOWN">>
            /\ code = 62 => ret.val = <<"UNKNOWN">>

C13_Witness ==
    /\ pc = "done" /\ op.name = "isr"
    /\ trace[1].val = 197
    /\ ret = Ok(<<"RHR_INTERRUPT">>)

\* the bit position of each feature flag
FeatureBit(f) ==
    IF f = "IrDaFast" THEN 7
    ELSE IF f = "AutoRs485RTSOutputInversion" THEN 5
    ELSE IF f = "AutoRs485DirectionControl" THEN 4
    ELSE IF f = "TxDisable" THEN 2
    ELSE IF f = "RxDisable" THEN 1
    ELSE 0

\* C14: enable_features reads offset 0x0F and writes it back with the
\* feature's bit set when enable = false and cleared when enable = true,
\* every other bit as read, for every feature and every register value.
C14_FeatureToggle ==
    (op.name = "enable_features" /\ Len(trace) >= 1) =>
        /\ IsRead(trace[1], op.channel, 15)
        /\ Len(trace) <= 2
        /\ Failed(trace[1]) => Len(trace) = 1
        /\ Len(trace) = 2 =>
              /\ IsWrite(trace[2], op.channel, 15)
              /\ \A k \in 0..7 :
                    Bit(trace[2].out[2], k) =
                        IF k = FeatureBit(op.feature)
                        THEN (IF op.enable THEN 0 ELSE 1)
                        ELSE Bit(trace[1].val, k)

C14_Witness ==
    /\ pc = "done" /\ op.name = "enable_features" /\ ret.kind = "ok"
    /\ op.feature = "TxDisable" /\ ~op.enable
    /\ trace[1].val = 161
    /\ trace[2].out[2] = 165

\* C15: a raw address in [0x48, 0x57] is used as it is; an even raw address
\* in [0x90, 0xAE] resolves to raw >> 1, which lies in [0x48, 0x57]; the
\* transactions of later operations go to the resolved address.
C15_AddressNormalised ==
    /\ raw \in 72..87 => address = raw
    /\ (raw \in 144..174 /\ raw % 2 = 0) =>
          (2 * address = raw /\ address \in 72..87)
    /\ (raw \in 72..87 \/ (raw \in 144..174 /\ raw % 2 = 0)) =>
          \A i \in DOMAIN trace :
              trace[i].addr = (IF raw <= 87 THEN raw ELSE raw \div 2)

C15_Witness ==
    /\ raw = 174 /\ address = 87
    /\ pc = "done" /\ ret.kind = "ok"
    /\ Len(trace) = 1 /\ trace[1].addr = 87

\* C16: read_register is one write-then-read transaction that writes the
\* single byte (offset << 3) | (channel_index << 1) and reads one byte;
\* write_register is one write transaction of that byte followed by the
\* value; for every offset in 0..15 and both channels.
C16_RegisterAccess ==
    /\ (op.name = "read_register" /\ pc = "done") =>
          /\ Len(trace) = 1
          /\ trace[1].kind = "write_read"
          /\ trace[1].out = <<op.reg * 8 + ChanIdx(op.channel) * 2>>
          /\ trace[1].nread = 1
          /\ ret = (IF Failed(trace[1]) THEN Err(trace[1].err)
                    ELSE Ok(<<trace[1].val>>))
    /\ (op.name = "write_register" /\ pc = "done") =>
          /\ Len(trace) = 1
          /\ trace[1].kind = "write"
          /\ trace[1].out = <<op.reg * 8 + ChanIdx(op.channel) * 2, op.value>>
          /\ trace[1].nread = 0
          /\ ret = (IF Failed(trace[1]) THEN Err(trace[1].err) ELSE Ok(Unit))
    /\ op.name \in {"read_register", "write_register"} => Len(trace) <= 1

C16_Witness ==
    /\ pc = "done" /\ op.name = "write_register" /\ ret.kind = "ok"
    /\ op.channel = "B" /\ op.reg = 15 /\ op.value = 157
    /\ trace = <<[kind |-> "write", addr |-> address, out |-> <<122, 157>>,
                  nread |-> 0, val |-> 0, err |-> "none"]>>

\* indices of the line control writes issued before transaction i
LcrWritesBefore(i) ==
    {j \in 1..(i - 1) : IsWrite(trace[j], op.channel, 3)}

Max(S) == CHOOSE x \in S : \A y \in S : y <= x

\* C17: in set_baudrate the divisor writes (offsets 0x00, 0x01) come after a
\* line control write with bit 7 set and before the one with bit 7 clear;
\* when set_baudrate succeeds its last line control write has bit 7 clear
\* and bits 0..6 as read at its start.
C17_DivisorLatch ==
    op.name = "initalise_uart" =>
        /\ \A i \in DOMAIN trace :
              (IsWrite(trace[i], op.channel, 0)
                  \/ IsWrite(trace[i], op.channel, 1)) =>
                  /\ LcrWritesBefore(i) # {}
                  /\ LET j == Max(LcrWritesBefore(i))
                     IN  ~Failed(trace[j]) /\ Bit(trace[j].out[2], 7) = 1
                  /\ \A j \in LcrWritesBefore(i) : Bit(trace[j].out[2], 7) = 1
        /\ (Len(trace) >= 8 /\ ~Failed(trace[8])) =>
              /\ IsRead(trace[4], op.channel, 3)
              /\ IsWrite(trace[8], op.channel, 3)
              /\ Bit(trace[8].out[2], 7) = 0
              /\ trace[8].out[2] % 128 = trace[4].val % 128
              /\ \A i \in 1..7 : ~Failed(trace[i])

C17_Witness ==
    /\ op.name = "initalise_uart" /\ pc = "sl_read"
    /\ Len(trace) = 8 /\ ~Failed(trace[8])
    /\ trace[4].val = 70
    /\ trace[5].out[2] = 198
    /\ trace[6].out[2] = 12
    /\ trace[8].out[2] = 70

TriggerPattern ==
    <<[kind |-> "write_read", reg |-> 4], [kind |-> "write", reg |-> 4],
      [kind |-> "write_read", reg |-> 2], [kind |-> "write", reg |-> 2],
      [kind |-> "write", reg |-> 7], [kind |-> "write", reg |-> 2]>>

\* v with bit k set
WithBit(v, k) == v + (1 - Bit(v, k)) * (2 ^ k)

\* C18: fifo_set_trigger_level writes offset 0x04 with bit 2 set, offset 0x02
\* with bit 4 set, offset 0x07 with the trigger value (length << 4 cut to 8
\* bits for TX, length for RX), then offset 0x02 with the value read from it
\* before bit 4 was set, in this order.
C18_TriggerOrder ==
    op.name = "fifo_set_trigger_level" =>
        /\ Len(trace) <= Len(TriggerPattern)
        /\ \A i \in DOMAIN trace :
              /\ trace[i].kind = TriggerPattern[i].kind
              /\ trace[i].out[1] =
                    SubAddress(op.channel, TriggerPattern[i].reg)
              /\ Failed(trace[i]) => (i = Len(trace) /\ ret = Err(trace[i].err))
        /\ Len(trace) >= 2 => trace[2].out[2] = WithBit(trace[1].val, 2)
        /\ Len(trace) >= 4 => trace[4].out[2] = WithBit(trace[3].val, 4)
        /\ Len(trace) >= 5 =>
              trace[5].out[2] = (IF op.rx_fifo THEN op.length
                                 ELSE (op.length * 16) % 256)
        /\ Len(trace) >= 6 => trace[6].out[2] = trace[3].val
        /\ (pc = "done" /\ ret.kind = "ok") => Len(trace) = 6

C18_Witness ==
    /\ pc = "done" /\ op.name = "fifo_set_trigger_level" /\ ret.kind = "ok"
    /\ ~op.rx_fifo /\ op.length = 255
    /\ trace[3].val = 70
    /\ trace[4].out[2] = 86
    /\ trace[5].out[2] = 240
    /\ trace[6].out[2] = 70

\* C19: in every reachable state both peek flags are off and both peek
\* buffers are empty; a call to peek issues no bus transaction, takes no
\* byte from the RX FIFO and leaves the flag off.
C19_PeekInert ==
    /\ \A c \in Channels : ~peek_flags[c] /\ peek_buf[c] = <<>>
    /\ op.name = "peek" =>
          /\ trace = <<>>
          /\ ret = Ok(<<>>)
          /\ ~arrived => rxfifo = rx0

C19_Witness ==
    /\ pc = "done" /\ op.name = "peek"
    /\ Len(rxfifo[op.channel]) = 2
    /\ rxfifo = rx0
    /\ trace = <<>>
    /\ fifo[op.channel] = 2

\* a write or flush is between its call and its return
Waiting == pc \in {"wb_poll", "wb_data", "fl_poll"}

\* no line status read of the running call has reported bit 5 set
BusyOnly ==
    \A i \in DOMAIN trace :
        IsRead(trace[i], op.channel, 5) => Bit(trace[i].val, 5) = 0

OnlyStatusReads == \A i \in DOMAIN trace : IsRead(trace[i], op.channel, 5)

\* flush issues line status reads only and returns Ok only on a poll that
\* reported bit 5
FlushPolls ==
    op.name = "flush" =>
        /\ OnlyStatusReads
        /\ (pc = "done" /\ ret.kind = "ok") =>
              /\ trace # <<>>
              /\ Bit(trace[Len(trace)].val, 5) = 1

\* while the bus works and bit 5 has not been reported, flush and a write of
\* at least one byte are still polling and have issued line status reads only
BlockedWhileBusy ==
    (/\ op.name \in {"write", "flush"}
     /\ NoFailure
     /\ BusyOnly
     /\ op.name = "write" => op.payload # <<>>)
    => (Waiting /\ pc # "wb_data" /\ OnlyStatusReads)

\* the same for a write of any payload, the empty one included
BlockedWhileBusy_AnyPayload ==
    (/\ op.name \in {"write", "flush"}
     /\ NoFailure
     /\ BusyOnly)
    => (Waiting /\ pc # "wb_data" /\ OnlyStatusReads)

\* C20 as stated: when the poll that ends a wait eventually happens, write
\* and flush eventually return; while bit 5 has not been reported, neither
\* call of any payload has returned, write has issued no data register write
\* and flush has issued line status reads only.
C20_AsStated ==
    /\ Waiting ~> (pc = "done")
    /\ [](FlushPolls /\ BlockedWhileBusy_AnyPayload)

\* C20 amended: the same, where the blocked write has at least one byte to
\* send (a write of the empty payload returns Ok without polling).
C20_BlockingWaits ==
    /\ Waiting ~> (pc = "done")
    /\ [](FlushPolls /\ BlockedWhileBusy)

C20_Witness ==
    /\ op.name = "write" /\ pc = "wb_poll"
    /\ Len(op.payload) = MaxPayload
    /\ loc.n = MaxPolls /\ Len(trace) = MaxPolls
    /\ NoFailure /\ BusyOnly
    /\ loc.tmp # trace[Len(trace)].val

\* indices of the line control writes of the running call that succeeded
AckedLcrWrites ==
    {j \in DOMAIN trace :
        IsWrite(trace[j], op.channel, 3) /\ ~Failed(trace[j])}

\* transaction i comes after a successful line control write with bit 7 set,
\* with no line control write in between, and is not a line control write
InLatchWindow(i) ==
    /\ LcrWritesBefore(i) # {}
    /\ LET j == Max(LcrWritesBefore(i))
       IN  ~Failed(trace[j]) /\ Bit(trace[j].out[2], 7) = 1
    /\ ~IsWrite(trace[i], op.channel, 3)

\* C21: when a transaction of set_baudrate fails after the line control
\* write that set bit 7 succeeded and before the write that clears it,
\* initalise_uart returns that error, the failed transaction is its last
\* one, and the last line control value the chip accepted has bit 7 set.
C21_LatchLeftSet ==
    op.name = "initalise_uart" =>
        \A i \in DOMAIN trace :
            (Failed(trace[i]) /\ InLatchWindow(i)) =>
                /\ i \in {6, 7}
                /\ IsWrite(trace[i], op.channel, i - 6)
                /\ pc = "done"
                /\ ret = Err(trace[i].err)
                /\ Len(trace) = i
                /\ Max(AckedLcrWrites) = 5
                /\ Bit(trace[5].out[2], 7) = 1

C21_Witness ==
    /\ pc = "done" /\ op.name = "initalise_uart"
    /\ Len(trace) = 7
    /\ trace[7].err = "NACK" /\ ret = Err("NACK")
    /\ IsWrite(trace[7], op.channel, 1)
    /\ trace[4].val = 70
    /\ trace[5].out[2] = 198 /\ ~Failed(trace[5])

====
